---- MODULE Spec2Model ----
(***************************************************************************)
(* A model of the SSO pipe-risk scoring pipeline                           *)
(* (sso-prediction-model/src/preprocess.py and its callers).               *)
(*                                                                         *)
(* Text.  A Python str is a sequence of one-character strings, so that     *)
(* upper(), strip(), isdigit(), len() and the substring test `x in s` are  *)
(* computed and not assumed.  A missing cell (NaN/None) is the value NULL. *)
(***************************************************************************)
EXTENDS Integers, Sequences, FiniteSets, TLC

VARIABLES
    \* standardize_material_name / calculate_material_score, called alone
    raw_label,      \* the raw label passed in
    canon,          \* standardize_material_name(raw_label)
    canon_again,    \* standardize_material_name(canon)
    raw_score,      \* calculate_material_score(raw_label)
    canon_score,    \* calculate_material_score(canon)
    mpc,            \* "start", "canon", "again", "scored"
    \* calculate_age_score, called alone on two ages
    age_a, age_b,   \* the ages passed in
    call_a, call_b, \* the outcome of each call
    apc,            \* "start", "called"
    \* calculate_risk_category, called alone on two scores
    risk_a, risk_b, \* the scores passed in
    cat_a, cat_b,   \* the categories returned
    cpc,            \* "start", "called"
    \* the pipeline: preprocess_data on one input file
    csv,            \* the rows of the input CSV file
    df,             \* the DataFrame preprocess_data returned
    report,         \* the counts preprocess_data printed
    metrics,        \* what validate_risk_scoring found per age band
    df_results,     \* the DataFrame generate_predictions returned
    pc,             \* "start", "preprocessed", "validated", "predicted",
                    \* "raised"
    \* fix_pipe_age, called alone on one row
    fix_row,        \* the row passed in
    fix_result,     \* the age returned
    fpc,            \* "start", "called"
    \* add_cities.main, run after run on one results file and one cache file
    results_rows,   \* the rows of model_results.csv
    disk_cache,     \* the content of the cache file
    cache,          \* the cache dict of the run
    loaded_cache,   \* the cache as load_cache() returned it to the run
    top_n,          \* the top-N rows of the run
    to_geocode,     \* the coordinates the run decided to look up
    requests,       \* the calls of reverse_geocode in this run, in order,
                    \* each with what it returned
    asked_before,   \* the keys reverse_geocode was called for in earlier runs
    city_column,    \* the city column the run wrote to the results file
    run,            \* the number of the run
    gpc             \* "start", "geocoding", "done"

material_vars == <<raw_label, canon, canon_again, raw_score, canon_score, mpc>>
age_vars == <<age_a, age_b, call_a, call_b, apc>>
category_vars == <<risk_a, risk_b, cat_a, cat_b, cpc>>
pipeline_vars == <<csv, df, report, metrics, df_results, pc>>
repair_vars == <<fix_row, fix_result, fpc>>
cities_vars == <<results_rows, disk_cache, cache, loaded_cache, top_n,
                 to_geocode, requests, asked_before, city_column, run, gpc>>
vars == <<material_vars, age_vars, category_vars, pipeline_vars, repair_vars,
          cities_vars>>

\* ------------------------------------------------------------------ text

\* The missing value pandas reads for an empty cell (pd.isna is true of it).
NULL == <<"<NaN>">>

LowerCase == <<"a","b","c","d","e","f","g","h","i","j","k","l","m",
               "n","o","p","q","r","s","t","u","v","w","x","y","z">>
UpperCase == <<"A","B","C","D","E","F","G","H","I","J","K","L","M",
               "N","O","P","Q","R","S","T","U","V","W","X","Y","Z">>
Digits == {"0","1","2","3","4","5","6","7","8","9"}
Whitespace == {" "}

\* pd.isna(x) of a cell.
isna(x) == x = NULL

\* str(x): the text of a cell; str(float('nan')) is 'nan'.
str(x) == IF isna(x) THEN <<"n","a","n">> ELSE x

UpperChar(c) ==
    IF \E i \in 1..26 : LowerCase[i] = c
    THEN UpperCase[CHOOSE i \in 1..26 : LowerCase[i] = c]
    ELSE c

\* s.upper()
upper(s) == [i \in 1..Len(s) |-> UpperChar(s[i])]

\* s.strip(): without its leading and trailing whitespace.
strip(s) ==
    LET keep == {i \in 1..Len(s) : s[i] \notin Whitespace}
    IN  IF keep = {} THEN <<>>
        ELSE LET first == CHOOSE i \in keep : \A j \in keep : i <= j
                 last  == CHOOSE i \in keep : \A j \in keep : j <= i
             IN  SubSeq(s, first, last)

\* s.isdigit(): non-empty and every character a digit.
isdigit(s) == Len(s) > 0 /\ \A i \in 1..Len(s) : s[i] \in Digits

\* x in s, for strings: x is a contiguous part of s.
Contains(s, x) ==
    \E i \in 0..(Len(s) - Len(x)) : SubSeq(s, i + 1, i + Len(x)) = x

\* any(x in s for x in tokens)
AnyIn(tokens, s) == \E x \in tokens : Contains(s, x)

\* ------------------------------------------------- canonical categories

Unknown == <<"U","n","k","n","o","w","n">>
VCP == <<"V","C","P">>
ConcreteReinforced == <<"C","o","n","c","r","e","t","e"," ","(","R","e","i","n","f","o","r","c","e","d",")">>
Concrete == <<"C","o","n","c","r","e","t","e">>
CastIron == <<"C","a","s","t"," ","I","r","o","n">>
DuctileIron == <<"D","u","c","t","i","l","e"," ","I","r","o","n">>
PVC == <<"P","V","C">>
HDPE == <<"H","D","P","E">>
\* A category name that itself holds another family's token (PE).
SteelPipe == <<"S","t","e","e","l"," ","P","i","p","e">>
Steel == <<"S","t","e","e","l">>
Brick == <<"B","r","i","c","k">>
AsbestosCement == <<"A","s","b","e","s","t","o","s"," ","C","e","m","e","n","t">>
Fiberglass == <<"F","i","b","e","r","g","l","a","s","s">>

\* ------------------------------------------ standardize_material_name

\* The list with one code left out.
ValidShortCodesWithoutCP == {<<"C","I">>, <<"D","I">>, <<"A","C">>, <<"V","C">>}

\* Known valid 2-char codes (preprocess.py:152).
ValidShortCodes == {<<"C","I">>, <<"D","I">>, <<"A","C">>, <<"V","C">>, <<"C","P">>}

\* The data-error guard of preprocess.py:150-153.
IsDataError(material_upper) ==
    /\ \/ isdigit(material_upper)
       \/ material_upper = <<>>
       \/ Len(material_upper) <= 2
    /\ material_upper \notin ValidShortCodes

ClayTokens == {<<"V","C","P">>, <<"V","I","T","R","I","F","I","E","D">>, <<"C","L","A","Y">>, <<"V",".","C",".","P">>, <<"T","C","P">>,
               <<"T","E","R","R","A"," ","C","O","T","T","A">>}
ClayExact == {<<"V","C">>, <<"V",".","C",".">>, <<"B","C","P">>}
IsClay(u) == AnyIn(ClayTokens, u) \/ u \in ClayExact

ConcreteTokens == {<<"C","O","N","C","R","E","T","E">>, <<"C","O","N","C">>, <<"R","C","P">>, <<"N","R","C","P">>, <<"C","M","P">>}
ConcreteExact == {<<"C","P">>, <<"C",".","P",".">>, <<"C","O","N">>, <<"C","O","N","C",".">>, <<"C","E","M","E","N","T">>}
IsConcrete(u) == AnyIn(ConcreteTokens, u) \/ u \in ConcreteExact
\* Within the concrete family: reinforced only on the substring branch.
ConcreteCategory(u) ==
    IF AnyIn(ConcreteTokens, u)
          /\ (Contains(u, <<"R","C","P">>) \/ Contains(u, <<"R","E","I","N","F","O","R","C","E","D">>))
    THEN ConcreteReinforced
    ELSE Concrete

CastIronTokens == {<<"C","A","S","T"," ","I","R","O","N">>, <<"C",".","I",".">>, <<"C","I","P">>}
IsCastIron(u) == AnyIn(CastIronTokens, u) \/ u = <<"C","I">>

DuctileTokens == {<<"D","U","C","T","I","L","E">>, <<"D","I","P">>, <<"D",".","I",".","P">>}
IsDuctile(u) == AnyIn(DuctileTokens, u) \/ u = <<"D","I">>

PvcTokens == {<<"P","V","C">>, <<"P","O","L","Y","V","I","N","Y","L">>, <<"P","V","C","P">>, <<"C","9","0","0">>, <<"A","B","S">>}
IsPvc(u) == AnyIn(PvcTokens, u)

HdpeTokens == {<<"H","D","P","E">>, <<"H","P","D","E">>, <<"P","O","L","Y","E","T","H","Y","L","E","N","E">>, <<"P","E">>, <<"P","L","A","S","T","I","C">>,
               <<"H","D","P">>}
IsHdpe(u) == AnyIn(HdpeTokens, u)

IsSteel(u) == Contains(u, <<"S","T","E","E","L">>) \/ u = <<"M","E","T","A","L">>

IsBrick(u) == Contains(u, <<"B","R","I","C","K">>) \/ u = <<"B","/","C">>

AsbestosTokens == {<<"A","S","B","E","S","T","O","S">>, <<"A","C">>, <<"A","/","C">>, <<"T","R","A","N","S","I","T","E">>}
IsAsbestos(u) == AnyIn(AsbestosTokens, u)

FiberglassTokens == {<<"F","I","B","E","R","G","L","A","S","S">>, <<"F","R","P">>, <<"T","E","C","H","I","T","E">>}
IsFiberglass(u) == AnyIn(FiberglassTokens, u)

UnknownTokens == {<<"U","N","K","N","O","W","N">>, <<"U","K","N">>, <<"U","N","K">>, <<"O","T","H","E","R">>, <<"N","/","A">>, <<"N","O","N","E">>,
                  <<"G","R","E","A","S","E">>, <<"H","A","I","R">>, <<"B","L","U","E","B","E","L","L">>}
IsUnknownToken(u) == AnyIn(UnknownTokens, u)

\* The rule chain with the cast-iron rule tried before the concrete rule.
FamilyRulesCastIronFirst(u, original) ==
    IF IsClay(u) THEN VCP
    ELSE IF IsCastIron(u) THEN CastIron
    ELSE IF IsConcrete(u) THEN ConcreteCategory(u)
    ELSE IF IsDuctile(u) THEN DuctileIron
    ELSE IF IsPvc(u) THEN PVC
    ELSE IF IsHdpe(u) THEN HDPE
    ELSE IF IsSteel(u) THEN Steel
    ELSE IF IsBrick(u) THEN Brick
    ELSE IF IsAsbestos(u) THEN AsbestosCement
    ELSE IF IsFiberglass(u) THEN Fiberglass
    ELSE IF IsUnknownToken(u) THEN Unknown
    ELSE original

\* The rule chain of preprocess.py:155-218 on the upper-cased trimmed label;
\* `original` is str(material).strip(), returned when no rule matches.
FamilyRules(u, original) ==
    IF IsClay(u) THEN VCP
    ELSE IF IsConcrete(u) THEN ConcreteCategory(u)
    ELSE IF IsCastIron(u) THEN CastIron
    ELSE IF IsDuctile(u) THEN DuctileIron
    ELSE IF IsPvc(u) THEN PVC
    ELSE IF IsHdpe(u) THEN HDPE
    ELSE IF IsSteel(u) THEN Steel
    ELSE IF IsBrick(u) THEN Brick
    ELSE IF IsAsbestos(u) THEN AsbestosCement
    ELSE IF IsFiberglass(u) THEN Fiberglass
    ELSE IF IsUnknownToken(u) THEN Unknown
    ELSE original

standardize_material_name(material) ==
    IF isna(material) THEN Unknown
    ELSE LET material_upper == strip(upper(str(material)))
         IN  IF IsDataError(material_upper) THEN Unknown
             ELSE FamilyRules(material_upper, strip(str(material)))

\* ------------------------------------------- calculate_material_score

ScoreCastIronTokens == {<<"C","A","S","T"," ","I","R","O","N">>, <<"C",".","I",".">>, <<"C","I","P">>, <<"C","I">>}
ScoreConcreteTokens == {<<"C","O","N","C","R","E","T","E">>, <<"C","O","N","C">>, <<"C","O","N">>, <<"R","C","P">>, <<"C","M","P">>}
ScoreSteelTokens == {<<"S","T","E","E","L">>}
ScoreClayTokens == {<<"V","C","P">>, <<"V","I","T","R","I","F","I","E","D">>, <<"C","L","A","Y">>, <<"V",".","C",".","P">>}
ScoreAsbestosTokens == {<<"A","S","B","E","S","T","O","S">>, <<"A","C">>, <<"A","/","C">>}
\* The ductile tokens with the first one misspelt.
ScoreDuctileTokensMisspelt == {<<"D","U","C","T","L","E">>, <<"D","I","P">>, <<"D",".","I",".","P">>}
ScoreDuctileTokens == {<<"D","U","C","T","I","L","E">>, <<"D","I","P">>, <<"D",".","I",".","P">>}
ScorePlasticTokens == {<<"P","V","C">>, <<"P","L","A","S","T","I","C">>, <<"P","O","L","Y">>, <<"H","D","P","E">>, <<"P","E">>,
                       <<"P","O","L","Y","V","I","N","Y","L">>, <<"P","O","L","Y","E","T","H","Y","L","E","N","E">>}

calculate_material_score(material) ==
    LET material_upper == strip(upper(str(material)))
    IN  IF AnyIn(ScoreCastIronTokens, material_upper) THEN 100
        ELSE IF AnyIn(ScoreConcreteTokens, material_upper) THEN 70
        ELSE IF AnyIn(ScoreSteelTokens, material_upper) THEN 60
        ELSE IF AnyIn(ScoreClayTokens, material_upper) THEN 50
        ELSE IF AnyIn(ScoreAsbestosTokens, material_upper) THEN 36
        ELSE IF AnyIn(ScoreDuctileTokens, material_upper) THEN 18
        ELSE IF AnyIn(ScorePlasticTokens, material_upper) THEN 10
        ELSE 50

\* ------------------------------------------------------- material labels

\* Raw labels are built from at most MaxPieces pieces: single characters
\* (letters of the two-letter codes, a lower-case letter, a digit, a dot, a
\* blank) and a few family tokens, so that short codes, padded and mixed-case
\* labels and labels holding tokens of several families all occur.
MaxPieces == 2

Pieces == {<<"C">>, <<"I">>, <<"P">>, <<"A">>, <<"V">>, <<"D">>, <<"E">>, <<"c">>, <<"x">>,
           <<"9">>, <<".">>, <<" ">>,
           <<"V","C","P">>, <<"C","O","N","C">>, <<"C","I","P">>, <<"S","T","E","E","L">>, <<"P","V","C">>, <<"R","C","P">>}

RECURSIVE Concats(_)
Concats(n) ==
    IF n = 0 THEN {<<>>}
    ELSE LET shorter == Concats(n - 1)
         IN  shorter \cup {s \o p : s \in shorter, p \in Pieces}

\* The canonical names, as labels of their own.
CanonicalNames == {CastIron, Concrete, ConcreteReinforced, VCP, DuctileIron,
                   PVC, HDPE, Steel, Brick, AsbestosCement, Fiberglass,
                   Unknown}

\* Labels of real data that the pieces do not build.
SampleLabels == {<<"C",".","I",".","P",".">>, <<"t","e","r","r","a"," ","c","o","t","t","a">>, <<"x","y","z","1","2","3">>, <<" ","x","y","z","1","2","3"," ">>,
                 <<" ","c","i"," ">>, <<"M","S">>, <<"1","2","3">>, <<"M","E","T","A","L">>, <<"B","/","C">>, <<"T","r","a","n","s","i","t","e">>,
                 <<"C","9","0","0">>, <<"S","p","e","c","i","a","l">>, <<"r","e","i","n","f","o","r","c","e","d"," ","c","o","n","c","r","e","t","e">>, <<"N","/","A">>,
                 <<"T","e","c","h","i","t","e">>, <<"c","e","m","e","n","t">>, <<"P","l","a","s","t","i","c">>, <<"P","O","L","Y">>, <<"C","O","N">>,
                 <<"V",".","C",".">>, <<"B","r","i","c","k","/","C","o","n","c">>, <<"D",".","I",".","P",".">>, <<" "," ">>}

Labels == {NULL} \cup Concats(MaxPieces) \cup CanonicalNames \cup SampleLabels

\* --------------------------------------------------------------- numbers

(***************************************************************************)
(* A float cell is a record.  A finite value of ordinary size is held      *)
(* exactly as a whole number of twelfths (k = "fin"), so that age / 12 is  *)
(* exact; NaN is the missing number pandas coerces to; Huge stands for the *)
(* finite double 1e200 and NegHuge for -1e200, the values at which float   *)
(* arithmetic stops being exact: x - 1e200 is -1e200, and (1e200 / 100)    *)
(* ** 1.8 exceeds the largest double, where Python's float ** raises       *)
(* OverflowError.                                                          *)
(***************************************************************************)
Twelfths == 12
Fin(n) == [k |-> "fin", n |-> n]
Years(y) == Fin(y * Twelfths)
NaN == [k |-> "nan", n |-> 0]
Huge == [k |-> "huge", n |-> 1]
NegHuge == [k |-> "huge", n |-> -1]

isnan(x) == x.k = "nan"

\* The place of a non-NaN value in the order of the floats.
OrderKey(x) == IF x.k = "huge" THEN <<x.n, 0>> ELSE <<0, x.n>>

\* x < y and x <= y on floats: false when either side is NaN.
Lt(x, y) ==
    /\ ~isnan(x) /\ ~isnan(y)
    /\ \/ OrderKey(x)[1] < OrderKey(y)[1]
       \/ OrderKey(x)[1] = OrderKey(y)[1] /\ OrderKey(x)[2] < OrderKey(y)[2]
Le(x, y) == ~isnan(x) /\ ~isnan(y) /\ ~Lt(y, x)

\* ------------------------------------------------- exact whole numbers

\* Whole numbers past 2^31, as little-endian sequences of limbs below
\* LimbBase with no leading zero limb: they carry the comparison that
\* decides  floor(s * (age/100) ^ 1.8)  exactly.
LimbBase == 1000

RECURSIVE BigCarry(_, _)
BigCarry(raw, c) ==
    IF raw = <<>>
    THEN IF c = 0 THEN <<>> ELSE <<c % LimbBase>> \o BigCarry(<<>>, c \div LimbBase)
    ELSE LET t == Head(raw) + c
         IN  <<t % LimbBase>> \o BigCarry(Tail(raw), t \div LimbBase)

RECURSIVE BigTrim(_)
BigTrim(a) ==
    IF a # <<>> /\ a[Len(a)] = 0 THEN BigTrim(SubSeq(a, 1, Len(a) - 1)) ELSE a

Big(n) == BigTrim(BigCarry(<<n>>, 0))

RECURSIVE BigDot(_, _, _, _)
\* sum of a[i] * b[k + 1 - i] over i in lo..hi
BigDot(a, b, k, i) ==
    IF i > Len(a) \/ i > k THEN 0
    ELSE (IF k + 1 - i <= Len(b) THEN a[i] * b[k + 1 - i] ELSE 0)
         + BigDot(a, b, k, i + 1)

BigMul(a, b) ==
    IF a = <<>> \/ b = <<>> THEN <<>>
    ELSE BigTrim(BigCarry([k \in 1..(Len(a) + Len(b)) |-> BigDot(a, b, k, 1)], 0))

RECURSIVE BigPow(_, _)
BigPow(a, e) == IF e = 1 THEN a ELSE BigMul(a, BigPow(a, e - 1))

RECURSIVE BigLeFrom(_, _, _)
BigLeFrom(a, b, i) ==
    IF i = 0 THEN TRUE
    ELSE IF a[i] # b[i] THEN a[i] < b[i]
    ELSE BigLeFrom(a, b, i - 1)

BigLe(a, b) ==
    IF Len(a) # Len(b) THEN Len(a) < Len(b) ELSE BigLeFrom(a, b, Len(a))

\* ---------------------------------------------------- calculate_age_score

\* Scores are held in units of 1/ScoreScale of a point.
ScoreScale == 1000

\* PowTerm searches below 2^SearchBits score units and saturates there;
\* the clamp of calculate_age_score maps every such score to 100.
SearchBits == 17

CurveDenominator == BigPow(Big(100 * Twelfths), 9)
CurveScale == BigPow(Big(80 * ScoreScale), 5)

\* floor(ScoreScale * 80 * (age/100) ^ 1.8) for age = n/Twelfths > 0: the
\* largest r with  r^5 * (100*Twelfths)^9 <= (80*ScoreScale)^5 * n^9.
RECURSIVE PowSearch(_, _, _)
PowSearch(rhs, lo, hi) ==
    \* lo satisfies the bound, hi does not (or is the end of the range)
    IF hi - lo <= 1 THEN lo
    ELSE LET mid == (lo + hi) \div 2
         IN  IF BigLe(BigMul(BigPow(Big(mid), 5), CurveDenominator), rhs)
             THEN PowSearch(rhs, mid, hi)
             ELSE PowSearch(rhs, lo, mid)

PowTerm(n) == PowSearch(BigMul(CurveScale, BigPow(Big(n), 9)), 0, 2 ^ SearchBits)

\* The ages the model scores, in twelfths of a year: whole years up to
\* MaxAgeYears, values just off the two branch points, and the ages the
\* pipeline's sample files hold before or after repair.
MaxAgeYears == 101

OffGridAges == {1, 6, 486, 1086, 1199, 1201}
LargeAges == {150, 151, 170, 600, 1800, 1850, 2005}
ScoredAges ==
    {y * Twelfths : y \in 1..MaxAgeYears} \cup OffGridAges
        \cup {y * Twelfths : y \in LargeAges}

\* PowTerm over the scored ages, computed once.
PowTable == [n \in ScoredAges |-> PowTerm(n)]

\* ((age / 100) ** 1.8) * 80 of preprocess.py:55, in score units.
PowTimes80(n) == IF n \in ScoredAges THEN PowTable[n] ELSE PowTerm(n)

\* Whether calculate_age_score raises: for an age as large as 1e200 the
\* power exceeds the largest double and float ** raises OverflowError.
AgeScoreRaises(age) == Lt(Years(0), age) /\ age.k = "huge"

\* The value calculate_age_score returns (where it returns), in score units.
calculate_age_score(age) ==
    IF Le(age, Years(0)) THEN 20 * ScoreScale
    ELSE IF isnan(age) THEN 100 * ScoreScale    \* min(100, nan) is 100
    ELSE LET score == 20 * ScoreScale + PowTimes80(age.n)
         IN  IF 100 * ScoreScale < score THEN 100 * ScoreScale ELSE score

\* ------------------------------------------------ calculate_risk_category

\* A combined risk score is held in units of 1/RiskScale of a point, the
\* unit in which 0.80 * age_score + 0.20 * material_score is exact.
RiskScale == 10 * ScoreScale

\* The bands cut with < in place of <=.
calculate_risk_category_strict(risk_score) ==
    IF risk_score < 40 * RiskScale THEN "Low"
    ELSE IF risk_score < 60 * RiskScale THEN "Medium"
    ELSE IF risk_score < 80 * RiskScale THEN "High"
    ELSE "Critical"

calculate_risk_category(risk_score) ==
    IF risk_score <= 40 * RiskScale THEN "Low"
    ELSE IF risk_score <= 60 * RiskScale THEN "Medium"
    ELSE IF risk_score <= 80 * RiskScale THEN "High"
    ELSE "Critical"

\* (age_score * 0.80) + (material_score * 0.20), preprocess.py:328; the
\* age score comes in score units, the material score in whole points.
WeightedRisk(age_score, material_score) ==
    8 * age_score + 2 * material_score * ScoreScale

\* ------------------------------------------------------------ fix_pipe_age

\* A spill_date cell after pd.to_datetime(..., errors='coerce').
NaT == [k |-> "nat", year |-> 0]
Date(y) == [k |-> "date", year |-> y]

\* The subtraction the other way round: age - spill_year.
YearMinusReversed(spill_year, age) ==
    IF age.k = "huge" THEN age ELSE Fin(age.n - spill_year * Twelfths)

\* spill_year - age on floats.
YearMinus(spill_year, age) ==
    IF age.k = "huge" THEN [k |-> "huge", n |-> 0 - age.n]
    ELSE Fin(spill_year * Twelfths - age.n)

\* age / 12 on floats (the model's ages above 150 are whole years).
DivideBy12(age) ==
    IF age.k = "huge" THEN age ELSE Fin(age.n \div 12)

fix_pipe_age(row) ==
    LET age == row.pipe_age_years
    IN  IF isnan(age) \/ Le(age, Years(150)) THEN age
        ELSE IF Lt(Years(1800), age)
        THEN LET spill_date == row.spill_date
                 calculated_age == YearMinus(spill_date.year, age)
             IN  IF spill_date.k = "date"
                      /\ Lt(Years(0), calculated_age)
                      /\ Le(calculated_age, Years(150))
                 THEN calculated_age
                 ELSE age
        ELSE IF Lt(Years(150), age) /\ Lt(age, Years(1800))
        THEN LET age_in_years == DivideBy12(age)
             IN  IF Lt(Years(0), age_in_years) /\ Le(age_in_years, Years(150))
                 THEN age_in_years
                 ELSE age
        ELSE age

\* --------------------------------------------------------- preprocess_data

\* A pipe_age_years cell that is text, not a number.
TextCell == [k |-> "text", n |-> 0]

\* pd.to_numeric(..., errors='coerce') of one cell.
to_numeric(cell) == IF cell.k = "text" THEN NaN ELSE cell

\* a != b on floats: NaN differs from everything, itself included.
FloatNe(a, b) == isnan(a) \/ isnan(b) \/ a # b

\* pd.read_csv and the numeric coercion (preprocess.py:283-288): one record
\* per line, labelled by the DataFrame's RangeIndex.
LoadFrame(file) ==
    [i \in 1..Len(file) |->
        [index |-> i - 1,
         pipe_age_years |-> to_numeric(file[i].pipe_age_years),
         pipe_material |-> file[i].pipe_material,
         spill_date |-> file[i].spill_date,
         location |-> file[i].location]]

\* ages_needing_fix (preprocess.py:295).
AgesNeedingFix(frame) ==
    Cardinality({i \in 1..Len(frame) : Lt(Years(1800), frame[i].pipe_age_years)})

\* The age repair of preprocess.py:298-300, run only when some age exceeds
\* 1800: the audit column is added and every row goes through fix_pipe_age.
RepairAges(frame) ==
    IF AgesNeedingFix(frame) > 0
    THEN [i \in 1..Len(frame) |->
            [index |-> frame[i].index,
             pipe_age_years |-> fix_pipe_age(frame[i]),
             pipe_age_years_original |-> frame[i].pipe_age_years,
             pipe_material |-> frame[i].pipe_material,
             spill_date |-> frame[i].spill_date,
             location |-> frame[i].location]]
    ELSE frame

\* ages_fixed (preprocess.py:301): rows whose age compares unequal to the
\* age before the repair.
AgesFixed(before, after) ==
    Cardinality({i \in 1..Len(before) :
                    FloatNe(after[i].pipe_age_years, before[i].pipe_age_years)})

\* The canonical name written over the raw material column.
StandardizeMaterialsInPlace(frame) ==
    [i \in 1..Len(frame) |->
        [pipe_material |->
             standardize_material_name(frame[i].pipe_material)] @@
        frame[i] @@
        [pipe_material_original |-> frame[i].pipe_material,
         pipe_material_standardized |->
             standardize_material_name(frame[i].pipe_material)]]

\* The material columns of preprocess.py:306-307.
StandardizeMaterials(frame) ==
    [i \in 1..Len(frame) |->
        frame[i] @@
        [pipe_material_original |-> frame[i].pipe_material,
         pipe_material_standardized |->
             standardize_material_name(frame[i].pipe_material)]]

\* The filter testing the standardized material column instead of the raw one.
KeepRowByStandardized(row) ==
    ~isnan(row.pipe_age_years) /\ ~isna(row.pipe_material_standardized)

\* The filter of preprocess.py:319.
KeepRow(row) == ~isnan(row.pipe_age_years) /\ ~isna(row.pipe_material)

\* The surviving rows, last first.
RECURSIVE FilterRowsLastFirst(_)
FilterRowsLastFirst(frame) ==
    IF frame = <<>> THEN <<>>
    ELSE FilterRowsLastFirst(Tail(frame))
         \o (IF KeepRow(Head(frame)) THEN <<Head(frame)>> ELSE <<>>)

\* df[mask].copy(): the rows that pass the filter, in their order.
RECURSIVE FilterRows(_)
FilterRows(frame) ==
    IF frame = <<>> THEN <<>>
    ELSE (IF KeepRow(Head(frame)) THEN <<Head(frame)>> ELSE <<>>)
         \o FilterRows(Tail(frame))

\* The raw label scored in place of the canonical one.
ScoredMaterialRaw(row) == row.pipe_material

\* The material whose score enters the risk score (preprocess.py:327).
ScoredMaterial(row) == row.pipe_material_standardized

\* The score columns of preprocess.py:326-329 for one surviving row.
ScoreRow(row) ==
    LET age_score == calculate_age_score(row.pipe_age_years)
        material_score == calculate_material_score(ScoredMaterial(row))
        risk_score == WeightedRisk(age_score, material_score)
    IN  row @@ [age_score |-> age_score,
                material_score |-> material_score,
                risk_score |-> risk_score,
                risk_category |-> calculate_risk_category(risk_score)]

\* preprocess_data(input_path): what it returns or that it raised, and the
\* counts it printed (ages_fixed is printed only when the repair ran).
preprocess_data(file) ==
    LET loaded == LoadFrame(file)
        repaired == RepairAges(loaded)
        standardized == StandardizeMaterials(repaired)
        df_filtered == FilterRows(standardized)
        raised == \E i \in 1..Len(df_filtered) :
                      AgeScoreRaises(df_filtered[i].pipe_age_years)
    IN  [raised |-> raised,
         df |-> IF raised THEN <<>>
                ELSE [i \in 1..Len(df_filtered) |-> ScoreRow(df_filtered[i])],
         report |-> [initial_count |-> Len(loaded),
                     ages_needing_fix |-> AgesNeedingFix(loaded),
                     repair_ran |-> AgesNeedingFix(loaded) > 0,
                     ages_fixed |-> AgesFixed(loaded, repaired),
                     filtered_count |-> Len(df_filtered)]]

\* ======================================================= specifications

\* ------------------------------------ the material functions, called alone

MaterialIdle ==
    /\ raw_label = NULL /\ canon = <<>> /\ canon_again = <<>>
    /\ raw_score = 0 /\ canon_score = 0 /\ mpc = "idle"

MaterialInit ==
    /\ raw_label \in Labels
    /\ canon = <<>> /\ canon_again = <<>>
    /\ raw_score = 0 /\ canon_score = 0
    /\ mpc = "start"

\* canon = standardize_material_name(raw_label)
Standardize ==
    /\ mpc = "start"
    /\ canon' = standardize_material_name(raw_label)
    /\ mpc' = "canon"
    /\ UNCHANGED <<raw_label, canon_again, raw_score, canon_score>>
    /\ UNCHANGED <<age_vars, category_vars, pipeline_vars, repair_vars,
                 cities_vars>>

\* canon_again = standardize_material_name(canon)
StandardizeAgain ==
    /\ mpc = "canon"
    /\ canon_again' = standardize_material_name(canon)
    /\ mpc' = "again"
    /\ UNCHANGED <<raw_label, canon, raw_score, canon_score>>
    /\ UNCHANGED <<age_vars, category_vars, pipeline_vars, repair_vars,
                 cities_vars>>

\* The raw label and its canonical form are both scored.
ScoreMaterial ==
    /\ mpc = "again"
    /\ raw_score' = calculate_material_score(raw_label)
    /\ canon_score' = calculate_material_score(canon)
    /\ mpc' = "scored"
    /\ UNCHANGED <<raw_label, canon, canon_again>>
    /\ UNCHANGED <<age_vars, category_vars, pipeline_vars, repair_vars,
                 cities_vars>>

\* ------------------------------------------ calculate_age_score, called alone

AgeInputs ==
    {Years(y) : y \in -2..MaxAgeYears} \cup {Fin(n) : n \in OffGridAges}
        \cup {Years(y) : y \in LargeAges}
        \cup {Fin(-1), NaN, Huge, NegHuge}

NoCall == [status |-> "none", value |-> 0]

\* One call of calculate_age_score: the value returned, or the exception.
AgeScoreCall(age) ==
    IF AgeScoreRaises(age)
    THEN [status |-> "OverflowError", value |-> 0]
    ELSE [status |-> "returned", value |-> calculate_age_score(age)]

AgeIdle ==
    /\ age_a = NaN /\ age_b = NaN /\ call_a = NoCall /\ call_b = NoCall
    /\ apc = "idle"

AgeInit ==
    /\ age_a \in AgeInputs /\ age_b \in AgeInputs
    /\ call_a = NoCall /\ call_b = NoCall
    /\ apc = "start"

CallAgeScore ==
    /\ apc = "start"
    /\ call_a' = AgeScoreCall(age_a)
    /\ call_b' = AgeScoreCall(age_b)
    /\ apc' = "called"
    /\ UNCHANGED <<age_a, age_b>>
    /\ UNCHANGED <<material_vars, category_vars, pipeline_vars, repair_vars,
                 cities_vars>>

\* -------------------------------------- calculate_risk_category, called alone

\* "Combined risk score (0-100)", preprocess.py:118.
MaxRiskScore == 100

\* Whole points of the range and the nearest scores on either side of the
\* three cut points.
RiskInputs ==
    {p * RiskScale : p \in 0..MaxRiskScore}
        \cup {b * RiskScale + d : b \in {40, 60, 80}, d \in {-1, 1}}

CategoryIdle ==
    /\ risk_a = 0 /\ risk_b = 0 /\ cat_a = "" /\ cat_b = "" /\ cpc = "idle"

CategoryInit ==
    /\ risk_a \in RiskInputs /\ risk_b \in RiskInputs
    /\ cat_a = "" /\ cat_b = ""
    /\ cpc = "start"

CallRiskCategory ==
    /\ cpc = "start"
    /\ cat_a' = calculate_risk_category(risk_a)
    /\ cat_b' = calculate_risk_category(risk_b)
    /\ cpc' = "called"
    /\ UNCHANGED <<risk_a, risk_b>>
    /\ UNCHANGED <<material_vars, age_vars, pipeline_vars, repair_vars,
                 cities_vars>>

\* ------------------------------------------------ fix_pipe_age, called alone

\* The spill dates of the rows: none (or unparseable), and a day of a year.
SpillYears == {1950, 2020}
RepairDates == {NaT} \cup {Date(y) : y \in SpillYears}

\* The ages of the rows: missing, beyond the range of whole numbers in either
\* direction, and whole years around each boundary of fix_pipe_age (0, 150,
\* 1800, and the installation years that give 0, 15 and 150 with each date).
RepairAgeInputs ==
    {NaN, Huge, NegHuge}
        \cup {Years(y) : y \in (0 - 1)..2}
        \cup {Years(y) : y \in 148..152}
        \cup {Years(600)}
        \cup {Years(y) : y \in 1798..1802}
        \cup UNION {{Years(d - 151), Years(d - 150), Years(d - 149),
                     Years(d - 15), Years(d - 1), Years(d), Years(d + 1)} :
                        d \in SpillYears}

RepairIdle ==
    /\ fix_row = [pipe_age_years |-> NaN, spill_date |-> NaT]
    /\ fix_result = NaN
    /\ fpc = "idle"

RepairInit ==
    /\ fix_row \in [pipe_age_years : RepairAgeInputs, spill_date : RepairDates]
    /\ fix_result = NaN
    /\ fpc = "start"

\* fix_result = fix_pipe_age(fix_row)
CallFixPipeAge ==
    /\ fpc = "start"
    /\ fix_result' = fix_pipe_age(fix_row)
    /\ fpc' = "called"
    /\ UNCHANGED fix_row
    /\ UNCHANGED <<material_vars, age_vars, category_vars, pipeline_vars,
                 cities_vars>>

\* ------------------------------------------------------- add_cities.main

\* A coordinate of whole degrees, as the float read_csv gives.
Degrees(d) == [k |-> "fin", n |-> d]

\* str() of a float of whole degrees: "34.0", "-118.0".
FormatFloat(x) == ToString(x.n) \o ".0"

\* key = f"{lat},{lon}" (add_cities.py:96, 107, 126)
CacheKey(lat, lon) == FormatFloat(lat) \o "," \o FormatFloat(lon)

\* A dict as a function on its keys.
EmptyDict == [k \in {} |-> ""]
\* An assignment that skips the '' of a failed lookup.
DictSetUnlessEmpty(d, key, value) ==
    IF value = "" THEN d
    ELSE [k \in DOMAIN d \cup {key} |-> IF k = key THEN value ELSE d[k]]

\* d[key] = value
DictSet(d, key, value) ==
    [k \in DOMAIN d \cup {key} |-> IF k = key THEN value ELSE d[k]]
DictGet(d, key, default) == IF key \in DOMAIN d THEN d[key] ELSE default

\* What reverse_geocode can return: a place name, or '' when the request
\* fails or the answer names no place (add_cities.py:63, 67).
GeocodeAnswers == {"Pasadena", ""}

\* The rows of the results file hold a risk score and a coordinate whose
\* latitude may be missing.
MaxResultRows == 3
RiskValues == {1, 2}
Points == {<<NaN, Degrees(0 - 118)>>, <<Degrees(34), Degrees(0 - 118)>>,
           <<Degrees(34), Degrees(0 - 117)>>, <<Degrees(33), Degrees(0 - 117)>>}
ResultFiles(n) ==
    {[i \in 1..n |-> [risk_score |-> c[i][1],
                      latitude |-> c[i][2][1],
                      longitude |-> c[i][2][2]]] :
        c \in [1..n -> RiskValues \X Points]}

\* The cache files a first run may find: none or an empty one, and one that
\* holds a coordinate with a place or with the '' of a failed lookup.
InitialCaches ==
    {EmptyDict} \cup
    {DictSet(EmptyDict, CacheKey(Degrees(34), Degrees(0 - 118)), a) :
        a \in GeocodeAnswers}

\* TOP_N (add_cities.py:16 has 100) and the number of requests between two
\* saves of the cache (add_cities.py:113 has 10), scaled down to the files
\* above; the number of runs in a row.
TOP_N == 2
SaveEvery == 2
MaxRuns == 2

\* df.sort_values('risk_score', ascending=False): the orders of the rows by
\* descending risk score; rows of equal score may come in any order.
SortedOrders(rows) ==
    {p \in Permutations(1..Len(rows)) :
        \A i, j \in 1..Len(rows) :
            i < j => rows[p[i]].risk_score >= rows[p[j]].risk_score}

\* .head(n)
head(rows, n) == SubSeq(rows, 1, IF Len(rows) < n THEN Len(rows) ELSE n)

\* top_n[['latitude', 'longitude']].drop_duplicates().dropna(): the
\* coordinates in the order of their first row, without those with a missing
\* part.
RECURSIVE UniqueCoords(_, _)
UniqueCoords(rows, seen) ==
    IF rows = <<>> THEN <<>>
    ELSE LET c == <<Head(rows).latitude, Head(rows).longitude>>
             rest == UniqueCoords(Tail(rows), seen \cup {c})
         IN  IF c \in seen \/ isnan(c[1]) \/ isnan(c[2]) THEN rest
             ELSE <<c>> \o rest

\* The loop of add_cities.py:94-98.
RECURSIVE NotCached(_, _)
NotCached(coords, dict) ==
    IF coords = <<>> THEN <<>>
    ELSE (IF CacheKey(Head(coords)[1], Head(coords)[2]) \notin DOMAIN dict
          THEN <<Head(coords)>> ELSE <<>>)
         \o NotCached(Tail(coords), dict)

\* get_city (add_cities.py:123-127)
get_city(row, dict) ==
    IF isnan(row.latitude) \/ isnan(row.longitude) THEN ""
    ELSE DictGet(dict, CacheKey(row.latitude, row.longitude), "")

CitiesIdle ==
    /\ results_rows = <<>> /\ disk_cache = EmptyDict /\ cache = EmptyDict
    /\ loaded_cache = EmptyDict /\ top_n = <<>> /\ to_geocode = <<>>
    /\ requests = <<>> /\ asked_before = {} /\ city_column = <<>>
    /\ run = 0 /\ gpc = "idle"

CitiesInit ==
    /\ results_rows \in UNION {ResultFiles(n) : n \in 0..MaxResultRows}
    /\ disk_cache \in InitialCaches
    /\ cache = EmptyDict /\ loaded_cache = EmptyDict
    /\ top_n = <<>> /\ to_geocode = <<>>
    /\ requests = <<>> /\ asked_before = {} /\ city_column = <<>>
    /\ run = 1 /\ gpc = "start"

\* add_cities.py:70-100: read the results, take the top N, load the cache and
\* list the coordinates it lacks.
PlanGeocoding ==
    /\ gpc = "start"
    /\ \E p \in SortedOrders(results_rows) :
          LET df_sorted == [i \in 1..Len(results_rows) |-> results_rows[p[i]]]
          IN  /\ top_n' = head(df_sorted, TOP_N)
              /\ to_geocode' = NotCached(UniqueCoords(top_n', {}), disk_cache)
    /\ cache' = disk_cache
    /\ loaded_cache' = disk_cache
    /\ requests' = <<>>
    /\ gpc' = "geocoding"
    /\ UNCHANGED <<results_rows, disk_cache, asked_before, city_column, run>>
    /\ UNCHANGED <<material_vars, age_vars, category_vars, pipeline_vars,
                 repair_vars>>

\* A save one request later than every SaveEvery-th.
SaveDueLate(i) == (i + 1) % (SaveEvery + 1) = 0

\* if (i + 1) % 10 == 0 (add_cities.py:113), i the index enumerate gives the
\* request.
SaveDue(i) == (i + 1) % SaveEvery = 0

\* One iteration of the loop of add_cities.py:106-116: the request, the
\* cache entry, and the save after every SaveEvery-th request.
GeocodeNext ==
    /\ gpc = "geocoding"
    /\ Len(requests) < Len(to_geocode)
    /\ LET i == Len(requests)
           coord == to_geocode[i + 1]
           key == CacheKey(coord[1], coord[2])
       IN  \E city \in GeocodeAnswers :
              /\ requests' = Append(requests, [coord |-> coord, city |-> city])
              /\ cache' = DictSet(cache, key, city)
              /\ disk_cache' = IF SaveDue(i) THEN cache'
                               ELSE disk_cache
    /\ UNCHANGED <<results_rows, loaded_cache, top_n, to_geocode, asked_before,
                   city_column, run, gpc>>
    /\ UNCHANGED <<material_vars, age_vars, category_vars, pipeline_vars,
                 repair_vars>>

\* add_cities.py:118-133: the final save of the cache and the city column
\* of every row, written back to the results file.
FinishGeocoding ==
    /\ gpc = "geocoding"
    /\ Len(requests) = Len(to_geocode)
    /\ disk_cache' = cache
    /\ city_column' = [i \in 1..Len(results_rows) |->
                          get_city(results_rows[i], cache)]
    /\ gpc' = "done"
    /\ UNCHANGED <<results_rows, cache, loaded_cache, top_n, to_geocode, requests,
                   asked_before, run>>
    /\ UNCHANGED <<material_vars, age_vars, category_vars, pipeline_vars,
                 repair_vars>>

\* A later run of the script on the files the run before left.
RunAgain ==
    /\ gpc = "done"
    /\ run < MaxRuns
    /\ run' = run + 1
    /\ asked_before' = asked_before \cup
          {CacheKey(requests[i].coord[1], requests[i].coord[2]) :
              i \in 1..Len(requests)}
    /\ cache' = EmptyDict /\ loaded_cache' = EmptyDict
    /\ top_n' = <<>> /\ to_geocode' = <<>> /\ requests' = <<>>
    /\ gpc' = "start"
    /\ UNCHANGED <<results_rows, disk_cache, city_column>>
    /\ UNCHANGED <<material_vars, age_vars, category_vars, pipeline_vars,
                 repair_vars>>

\* ---------------------------------------------------------- the pipeline

\* Input files hold at most MaxRows records.
MaxRows == 2

AgeCells == {TextCell, NaN, Years(40), Years(600), Years(2005), Huge}
MaterialCells == {NULL, <<"M","S">>, <<"c","p">>}
DateCells == {NaT, Date(2020)}

\* The records of a file: every age with every material and a spill date,
\* and the ages in months or calendar years also with no spill date (the
\* date is read only for ages above 150, preprocess.py:238-246).
RepairableAgeCells == {Years(600), Years(2005)}
RowCells ==
    (AgeCells \X MaterialCells \X (DateCells \ {NaT}))
        \cup (RepairableAgeCells \X MaterialCells \X {NaT})

\* The files of n records; location is a pass-through column.
Files(n) ==
    {[i \in 1..n |-> [pipe_age_years |-> c[i][1],
                      pipe_material |-> c[i][2],
                      spill_date |-> c[i][3],
                      location |-> 100 + i]] :
        c \in [1..n -> RowCells]}

\* ---- validate_risk_scoring and generate_predictions

\* The labels of pd.cut(..., bins=[0, 30, 50, 70, 90, float('inf')]) and the
\* missing band of an age outside every bin.
AgeBandLabels == <<"0-30", "31-50", "51-70", "71-90", "90+">>
BinEdges == <<0, 30, 50, 70, 90>>
NoBand == "NaN"

\* pd.cut of one age: the bins are open on the left and closed on the right,
\* (0, 30], (30, 50], (50, 70], (70, 90], (90, inf].
cut(age) ==
    IF isnan(age) \/ Le(age, Years(BinEdges[1])) THEN NoBand
    ELSE LET below == {i \in 1..Len(BinEdges) : Lt(Years(BinEdges[i]), age)}
         IN  AgeBandLabels[CHOOSE i \in below : \A j \in below : j <= i]

\* The age_band column of model.py:100 and predict.py:55, set on every row.
WithAgeBand(frame) ==
    [i \in 1..Len(frame) |->
        [age_band |-> cut(frame[i].pipe_age_years)] @@ frame[i]]

\* The sum of the risk scores of the rows of one band.
RECURSIVE BandSum(_, _)
BandSum(frame, band) ==
    IF frame = <<>> THEN 0
    ELSE (IF Head(frame).age_band = band THEN Head(frame).risk_score ELSE 0)
         + BandSum(Tail(frame), band)

\* age_stats = df.groupby('age_band')['risk_score'].agg(['mean', 'count'])
\* (model.py:104), the mean held as the sum over the count.
age_stats(frame) ==
    [b \in {AgeBandLabels[i] : i \in 1..Len(AgeBandLabels)} |->
        [count |-> Cardinality({i \in 1..Len(frame) : frame[i].age_band = b}),
         sum |-> BandSum(frame, b)]]

\* validate_risk_scoring(df): the frame as the call leaves it (the age_band
\* column is assigned on the caller's frame, model.py:100) and, of the
\* metrics, the statistics per age band.
validate_risk_scoring(frame) ==
    LET banded == WithAgeBand(frame)
    IN  [df |-> banded, metrics |-> age_stats(banded)]

\* The risk scores of a frame from the highest to the lowest, the order in
\* which rank(ascending=False) numbers them.
RECURSIVE SortDescending(_)
SortDescending(scores) ==
    IF scores = <<>> THEN <<>>
    ELSE LET m == CHOOSE i \in 1..Len(scores) :
                      \A j \in 1..Len(scores) : scores[j] <= scores[i]
         IN  <<scores[m]>>
             \o SortDescending([k \in 1..(Len(scores) - 1) |->
                                   IF k < m THEN scores[k] ELSE scores[k + 1]])

\* rank(ascending=True, method='min') of row i: the place of the score
\* counted from the lowest.
risk_rank_ascending(frame, i) ==
    LET ordered == SortDescending([k \in 1..Len(frame) |-> frame[k].risk_score])
        places == {p \in 1..Len(ordered) : ordered[p] = frame[i].risk_score}
        last == CHOOSE p \in places : \A q \in places : q <= p
    IN  Len(ordered) + 1 - last

\* risk_score.rank(ascending=False, method='min').astype(int) of row i
\* (predict.py:29): the rows are numbered from the highest score down and
\* rows of one score all take the lowest number of their group.
risk_rank(frame, i) ==
    LET ordered == SortDescending([k \in 1..Len(frame) |-> frame[k].risk_score])
        places == {p \in 1..Len(ordered) : ordered[p] = frame[i].risk_score}
    IN  CHOOSE p \in places : \A q \in places : p <= q

\* generate_predictions(df): a copy of the frame with the risk_rank and
\* age_band columns (predict.py:28-29, 55-57).
generate_predictions(frame) ==
    WithAgeBand([i \in 1..Len(frame) |->
                    [risk_rank |-> risk_rank(frame, i)] @@ frame[i]])

NoMetrics == [b \in {} |-> 0]

NoReport == [initial_count |-> 0, ages_needing_fix |-> 0, repair_ran |-> FALSE,
             ages_fixed |-> 0, filtered_count |-> 0]

PipelineIdle ==
    /\ csv = <<>> /\ df = <<>> /\ report = NoReport
    /\ metrics = NoMetrics /\ df_results = <<>> /\ pc = "idle"

PipelineInit ==
    /\ csv \in UNION {Files(n) : n \in 0..MaxRows}
    /\ df = <<>>
    /\ report = NoReport
    /\ metrics = NoMetrics /\ df_results = <<>>
    /\ pc = "start"

\* df = preprocess_data(input_file), or the exception it raised.
PreprocessData ==
    /\ pc = "start"
    /\ LET result == preprocess_data(csv)
       IN  /\ df' = result.df
           /\ report' = result.report
           /\ pc' = IF result.raised THEN "raised" ELSE "preprocessed"
    /\ UNCHANGED <<csv, metrics, df_results>>
    /\ UNCHANGED <<material_vars, age_vars, category_vars, repair_vars,
                 cities_vars>>

\* metrics = validate_risk_scoring(df_preprocessed) (main.py:63)
ValidateRiskScoring ==
    /\ pc = "preprocessed"
    /\ LET result == validate_risk_scoring(df)
       IN  /\ df' = result.df
           /\ metrics' = result.metrics
    /\ pc' = "validated"
    /\ UNCHANGED <<csv, report, df_results>>
    /\ UNCHANGED <<material_vars, age_vars, category_vars, repair_vars,
                 cities_vars>>

\* df_results = generate_predictions(df_preprocessed) (main.py:68)
GeneratePredictions ==
    /\ pc = "validated"
    /\ df_results' = generate_predictions(df)
    /\ pc' = "predicted"
    /\ UNCHANGED <<csv, df, report, metrics>>
    /\ UNCHANGED <<material_vars, age_vars, category_vars, repair_vars,
                 cities_vars>>

\* ---- the reporting functions on scored tables of many ages

\* Ages on both sides of every bin edge, in whole and in half years.
BandAges == {Years(0 - 1), Years(0), Fin(1), Years(30), Fin(366), Years(31),
             Fin(486), Years(90), Fin(1086), Years(91)}

\* The input files with these ages, a material and a date in every record.
BandFiles(n) ==
    {[i \in 1..n |-> [pipe_age_years |-> c[i],
                      pipe_material |-> PVC,
                      spill_date |-> Date(2020),
                      location |-> 100 + i]] :
        c \in [1..n -> BandAges]}

\* The pipeline after preprocess_data has returned the scored table.
ScoredInit ==
    /\ csv \in UNION {BandFiles(n) : n \in 0..MaxRows}
    /\ df = preprocess_data(csv).df
    /\ report = preprocess_data(csv).report
    /\ metrics = NoMetrics /\ df_results = <<>>
    /\ pc = "preprocessed"

\* ------------------------------------------------------------------------

\* The pipeline on one input file: main.py, steps 1 to 3.
Init ==
    /\ PipelineInit /\ MaterialIdle /\ AgeIdle /\ CategoryIdle
    /\ RepairIdle /\ CitiesIdle
Next == PreprocessData \/ ValidateRiskScoring \/ GeneratePredictions
Spec == Init /\ [][Next]_vars

\* standardize_material_name and calculate_material_score on one raw label.
InitMaterial ==
    /\ MaterialInit /\ AgeIdle /\ CategoryIdle /\ PipelineIdle
    /\ RepairIdle /\ CitiesIdle
NextMaterial == Standardize \/ StandardizeAgain \/ ScoreMaterial
SpecMaterial == InitMaterial /\ [][NextMaterial]_vars

\* calculate_age_score on two ages.
InitAge ==
    /\ AgeInit /\ MaterialIdle /\ CategoryIdle /\ PipelineIdle
    /\ RepairIdle /\ CitiesIdle
NextAge == CallAgeScore
SpecAge == InitAge /\ [][NextAge]_vars

\* calculate_risk_category on two scores.
InitCategory ==
    /\ CategoryInit /\ MaterialIdle /\ AgeIdle /\ PipelineIdle
    /\ RepairIdle /\ CitiesIdle
NextCategory == CallRiskCategory
SpecCategory == InitCategory /\ [][NextCategory]_vars

\* fix_pipe_age on one row.
InitRepair ==
    /\ RepairInit /\ MaterialIdle /\ AgeIdle /\ CategoryIdle
    /\ PipelineIdle /\ CitiesIdle
NextRepair == CallFixPipeAge
SpecRepair == InitRepair /\ [][NextRepair]_vars

\* The reporting steps of main.py on scored tables of many ages.
InitBands ==
    /\ ScoredInit /\ MaterialIdle /\ AgeIdle /\ CategoryIdle
    /\ RepairIdle /\ CitiesIdle
NextBands == ValidateRiskScoring \/ GeneratePredictions
SpecBands == InitBands /\ [][NextBands]_vars

\* add_cities.main, run after run.
InitCities ==
    /\ CitiesInit /\ MaterialIdle /\ AgeIdle /\ CategoryIdle
    /\ PipelineIdle /\ RepairIdle
NextCities == PlanGeocoding \/ GeocodeNext \/ FinishGeocoding \/ RunAgain
SpecCities == InitCities /\ [][NextCities]_vars

\* =============================================================== claims

\* ---- C1 ----------------------------------------------------------------

\* The age of input record i after the numeric coercion and the repair.
AgeAfterRepair(i) == RepairAges(LoadFrame(csv))[i].pipe_age_years

\* Input record i (DataFrame label i - 1) is a row of the returned frame.
InOutput(i) == \E j \in 1..Len(df) : df[j].index = i - 1

\* C1: preprocess_data keeps a record in its output if and only if its age
\* is non-missing after coercion and repair and its raw pipe_material is
\* non-missing: a record with missing raw material is excluded whatever its
\* age, a record whose age was repaired is kept (its material being there),
\* and a record whose material canonicalizes to "Unknown" is kept.
C1_FilterKeepsExactly ==
    pc = "preprocessed" =>
        \A i \in 1..Len(csv) :
            /\ InOutput(i) <=>
                  (~isnan(AgeAfterRepair(i)) /\ ~isna(csv[i].pipe_material))
            /\ isna(csv[i].pipe_material) => ~InOutput(i)
            /\ (/\ ~isna(csv[i].pipe_material)
                /\ ~isnan(to_numeric(csv[i].pipe_age_years))
                /\ AgeAfterRepair(i) # to_numeric(csv[i].pipe_age_years))
                   => InOutput(i)
            /\ (/\ ~isna(csv[i].pipe_material)
                /\ ~isnan(AgeAfterRepair(i))
                /\ standardize_material_name(csv[i].pipe_material) = Unknown)
                   => InOutput(i)

\* A file with a repaired record of "Unknown" material, which is kept, and a
\* record with an age but no material, which is dropped.
C1_Witness ==
    /\ pc = "preprocessed"
    /\ \E i, j \in 1..Len(csv) :
          /\ AgeAfterRepair(i) # to_numeric(csv[i].pipe_age_years)
          /\ ~isnan(AgeAfterRepair(i))
          /\ standardize_material_name(csv[i].pipe_material) = Unknown
          /\ ~isna(csv[i].pipe_material)
          /\ InOutput(i)
          /\ isna(csv[j].pipe_material)
          /\ ~isnan(AgeAfterRepair(j))
          /\ ~InOutput(j)

\* ---- C2 ----------------------------------------------------------------

\* C2: every record of the output has risk_score = 0.80 * age_score + 0.20 *
\* material_score, unrounded, with age_score the score of the (repaired) age
\* and material_score the score of pipe_material_standardized, not of the raw
\* label; so every risk_score lies in [18, 100].
C2_RiskScoreFormula ==
    pc = "preprocessed" =>
        \A j \in 1..Len(df) :
            /\ df[j].age_score = calculate_age_score(df[j].pipe_age_years)
            /\ df[j].material_score =
                  calculate_material_score(df[j].pipe_material_standardized)
            \* in units of 1/RiskScale = 1/(10 * ScoreScale) of a point
            /\ df[j].risk_score =
                  8 * df[j].age_score + 2 * (df[j].material_score * ScoreScale)
            /\ 18 * RiskScale <= df[j].risk_score
            /\ df[j].risk_score <= 100 * RiskScale

\* An output record with a repaired age whose raw label scores differently
\* from its canonical form.
C2_Witness ==
    /\ pc = "preprocessed"
    /\ \E j \in 1..Len(df) :
          /\ "pipe_age_years_original" \in DOMAIN df[j]
          /\ df[j].pipe_age_years # df[j].pipe_age_years_original
          /\ calculate_material_score(df[j].pipe_material) # df[j].material_score
          /\ df[j].risk_score > 18 * RiskScale

\* ---- C3 ----------------------------------------------------------------

CategoryRank(c) ==
    CASE c = "Low" -> 1 [] c = "Medium" -> 2 [] c = "High" -> 3
      [] c = "Critical" -> 4 [] OTHER -> 0

ExpectedCategory(s) ==
    CASE s <= 40 * RiskScale -> "Low"
      [] 40 * RiskScale < s /\ s <= 60 * RiskScale -> "Medium"
      [] 60 * RiskScale < s /\ s <= 80 * RiskScale -> "High"
      [] s > 80 * RiskScale -> "Critical"

\* C3: calculate_risk_category maps every score in [0, 100] to exactly one
\* of Low (score <= 40), Medium (40 < score <= 60), High (60 < score <= 80)
\* and Critical (score > 80); 40, 60 and 80 belong to the lower band, and the
\* category never decreases when the score increases.
C3_CategoryBands ==
    cpc = "called" =>
        /\ cat_a = ExpectedCategory(risk_a)
        /\ cat_b = ExpectedCategory(risk_b)
        /\ CategoryRank(cat_a) \in 1..4
        /\ risk_a <= risk_b => CategoryRank(cat_a) <= CategoryRank(cat_b)

\* The cut at 40: 40 itself is Low, the next score above it is Medium.
C3_Witness ==
    /\ cpc = "called"
    /\ risk_a = 40 * RiskScale /\ cat_a = "Low"
    /\ risk_b = 40 * RiskScale + 1 /\ cat_b = "Medium"

\* ---- C4 ----------------------------------------------------------------

\* C4: calculate_age_score returns exactly 20 for every age <= 0 and exactly
\* 100 for every age >= 100, and for every numeric age its result lies in
\* [20, 100].
C4_AgeScoreEnds ==
    apc = "called" =>
        /\ Le(age_a, Years(0)) =>
              call_a = [status |-> "returned", value |-> 20 * ScoreScale]
        /\ Le(Years(100), age_a) =>
              call_a = [status |-> "returned", value |-> 100 * ScoreScale]
        /\ ~isnan(age_a) =>
              /\ call_a.status = "returned"
              /\ 20 * ScoreScale <= call_a.value
              /\ call_a.value <= 100 * ScoreScale

\* C4, on the ages where the power does not overflow: the same three
\* statements hold of every call that returns.
C4_EndsWhereReturned ==
    (apc = "called" /\ call_a.status = "returned") =>
        /\ Le(age_a, Years(0)) => call_a.value = 20 * ScoreScale
        /\ Le(Years(100), age_a) => call_a.value = 100 * ScoreScale
        /\ 20 * ScoreScale <= call_a.value
        /\ call_a.value <= 100 * ScoreScale

\* ---- C5 ----------------------------------------------------------------

\* C5: calculate_age_score is monotonically non-decreasing in age: for any
\* two ages a <= b, across the age <= 0 branch and the clamp at 100 too,
\* both calls give a score and the score for a is at most the score for b.
C5_AgeScoreMonotone ==
    (apc = "called" /\ Le(age_a, age_b)) =>
        /\ call_a.status = "returned" /\ call_b.status = "returned"
        /\ call_a.value <= call_b.value

\* C5, on the ages where the power does not overflow: of two calls that
\* both return, the one with the smaller age returns the smaller score.
C5_MonotoneWhereReturned ==
    (/\ apc = "called"
     /\ call_a.status = "returned" /\ call_b.status = "returned"
     /\ Le(age_a, age_b))
        => call_a.value <= call_b.value

\* ---- C6 ----------------------------------------------------------------

MaterialScoreValues == {10, 18, 36, 50, 60, 70, 100}

CanonicalScore(name) ==
    CASE name = CastIron -> 100
      [] name \in {Concrete, ConcreteReinforced} -> 70
      [] name = Steel -> 60
      [] name = VCP -> 50
      [] name = AsbestosCement -> 36
      [] name = DuctileIron -> 18
      [] name \in {PVC, HDPE} -> 10
      [] name \in {Brick, Fiberglass, Unknown} -> 50

C7_ScoreAgreesWithCanonical ==
    mpc = "scored" => raw_score = canon_score

\* ---- C8 ----------------------------------------------------------------

\* The upper-cased trimmed copy of the raw label the rules look at.
LabelUpper == strip(upper(str(raw_label)))

\* The families in the order of the claim, each with what it matches on the
\* label and the category it gives.
FamilyOrder ==
    << [hit |-> IsClay(LabelUpper),         category |-> VCP],
       [hit |-> IsConcrete(LabelUpper),     category |-> ConcreteCategory(LabelUpper)],
       [hit |-> IsCastIron(LabelUpper),     category |-> CastIron],
       [hit |-> IsDuctile(LabelUpper),      category |-> DuctileIron],
       [hit |-> IsPvc(LabelUpper),          category |-> PVC],
       [hit |-> IsHdpe(LabelUpper),         category |-> HDPE],
       [hit |-> IsSteel(LabelUpper),        category |-> Steel],
       [hit |-> IsBrick(LabelUpper),        category |-> Brick],
       [hit |-> IsAsbestos(LabelUpper),     category |-> AsbestosCement],
       [hit |-> IsFiberglass(LabelUpper),   category |-> Fiberglass],
       [hit |-> IsUnknownToken(LabelUpper), category |-> Unknown] >>

\* In a list of families the first one that hits gives the result c; if none
\* hits, c is the trimmed label.
FirstHitDecides(order, c, trimmed) ==
    \A i \in 1..Len(order) :
        /\ (order[i].hit /\ \A h \in 1..(i - 1) : ~order[h].hit)
              => c = order[i].category
        /\ (\A h \in 1..Len(order) : ~order[h].hit) => c = trimmed

C9_DataErrorsAndShortCodes ==
    mpc # "start" =>
        /\ isna(raw_label) => canon = Unknown
        /\ (/\ ~isna(raw_label)
            /\ \/ isdigit(LabelUpper)
               \/ Len(LabelUpper) <= 2
            /\ LabelUpper \notin {<<"C","I">>, <<"D","I">>, <<"A","C">>, <<"V","C">>, <<"C","P">>})
              => canon = Unknown
        /\ (~isna(raw_label) /\ LabelUpper = <<"C","I">>) => canon = CastIron
        /\ (~isna(raw_label) /\ LabelUpper = <<"D","I">>) => canon = DuctileIron
        /\ (~isna(raw_label) /\ LabelUpper = <<"A","C">>) => canon = AsbestosCement
        /\ (~isna(raw_label) /\ LabelUpper = <<"V","C">>) => canon = VCP
        /\ (~isna(raw_label) /\ LabelUpper = <<"C","P">>) => canon = Concrete

\* The two-letter code cP, in mixed case, canonicalized to Concrete.
C9_Witness ==
    /\ mpc = "canon"
    /\ raw_label = <<"c","P">>
    /\ canon = Concrete

\* ---- C10 ---------------------------------------------------------------

\* C10: canonicalization is idempotent: standardize_material_name of a
\* canonicalized label is that label again, and each canonical name is
\* returned unchanged.
C10_Idempotent ==
    mpc \in {"again", "scored"} =>
        /\ canon_again = canon
        /\ raw_label \in CanonicalNames => canon = raw_label

\* A padded label of no family: trimmed the first time, unchanged the second.
C10_Witness ==
    /\ mpc = "again"
    /\ raw_label = <<" ","x","y","z","1","2","3"," ">>
    /\ canon = <<"x","y","z","1","2","3">>
    /\ canon_again = canon

\* ---- C11 ---------------------------------------------------------------

\* The age of the row fix_pipe_age was called on.
FixAge == fix_row.pipe_age_years

\* C11: fix_pipe_age treats every age with 150 < age <= 1800 as months: it
\* returns age / 12 when that is in (0, 150] and the age unchanged otherwise;
\* so 1800 gives 150 and 600 gives 50.
C11_MonthsUpTo1800 ==
    fpc = "called" =>
        /\ (Lt(Years(150), FixAge) /\ Le(FixAge, Years(1800))) =>
              \* twelve times the result is the age: the quotient of an age
              \* in this range is always in (0, 150]
              /\ fix_result.k = "fin"
              /\ 12 * fix_result.n = FixAge.n
              /\ Lt(Years(0), fix_result) /\ Le(fix_result, Years(150))
        /\ FixAge = Years(1800) => fix_result = Years(150)
        /\ FixAge = Years(600) => fix_result = Years(50)

\* C11, short of the upper boundary: every age with 150 < age < 1800 is
\* divided by 12.
C11_MonthsBelow1800 ==
    (fpc = "called" /\ Lt(Years(150), FixAge) /\ Lt(FixAge, Years(1800))) =>
        /\ fix_result.k = "fin"
        /\ 12 * fix_result.n = FixAge.n
        /\ Lt(Years(0), fix_result) /\ Le(fix_result, Years(150))

\* ---- C12 ---------------------------------------------------------------

\* event_year - age in twelfths of a year, for an age of ordinary size.
YearsSinceInstall == fix_row.spill_date.year * Twelfths - FixAge.n

\* The spill date parses and event_year - age is in (0, 150].
InstallYearFits ==
    /\ fix_row.spill_date.k = "date"
    /\ FixAge.k = "fin"
    /\ 0 < YearsSinceInstall /\ YearsSinceInstall <= 150 * Twelfths

\* C12: fix_pipe_age treats every age > 1800 as an installation year: when
\* the spill date parses and event_year - age is in (0, 150] it returns that
\* difference, and in every other case (no date, difference <= 0 or > 150)
\* the age unchanged; a null age and an age <= 150 are returned unchanged;
\* age 2005 with a spill date in 2020 gives 15.
C12_InstallYear ==
    fpc = "called" =>
        /\ Lt(Years(1800), FixAge) =>
              IF InstallYearFits THEN fix_result = Fin(YearsSinceInstall)
              ELSE fix_result = FixAge
        /\ (isnan(FixAge) \/ Le(FixAge, Years(150))) => fix_result = FixAge
        /\ (FixAge = Years(2005) /\ fix_row.spill_date = Date(2020))
              => fix_result = Years(15)

\* An installation year exactly 150 years before the spill, repaired to 150,
\* as against the same year with no date, which is left alone.
C12_Witness ==
    /\ fpc = "called"
    /\ FixAge = Years(1870)
    /\ fix_row.spill_date = Date(2020)
    /\ fix_result = Years(150)

\* ---- C13 ---------------------------------------------------------------

\* C13: a record whose age the repair leaves above the 150-year ceiling is
\* filtered out: every record of the output of preprocess_data has
\* pipe_age_years <= 150.
C13_NoAgeAboveCeiling ==
    pc = "preprocessed" =>
        \A j \in 1..Len(df) : Le(df[j].pipe_age_years, Years(150))

\* C13, as far as the code goes: the filter drops the records whose age is
\* missing, and nothing else about the age is tested.
C13_NoMissingAge ==
    pc = "preprocessed" => \A j \in 1..Len(df) : ~isnan(df[j].pipe_age_years)

\* ---- C14 ---------------------------------------------------------------

\* The row of the returned frame that input record i became.
OutputRow(i) == df[CHOOSE j \in 1..Len(df) : df[j].index = i - 1]

\* preprocess_data on the table that holds input record i alone.
Alone(i) == preprocess_data(<<csv[i]>>)

\* C14: the repair and the scoring of a record are independent of every
\* other record: a record that survives the filter has the pipe_age_years,
\* age_score, material_score, risk_score and risk_category it has when it is
\* the only record of the input table (600 is repaired to 50 whether or not
\* another record has an age above 1800).
C14_RowsIndependent ==
    pc = "preprocessed" =>
        \A i \in 1..Len(csv) :
            InOutput(i) =>
                /\ ~Alone(i).raised
                /\ Len(Alone(i).df) = 1
                /\ \A col \in {"pipe_age_years", "age_score", "material_score",
                              "risk_score", "risk_category"} :
                      OutputRow(i)[col] = Alone(i).df[1][col]

\* C14, as far as the code goes: the output of a record depends on the
\* record and on whether some record of the table has an age above 1800.
C14_RowsIndependentGivenRepair ==
    pc = "preprocessed" =>
        \A i \in 1..Len(csv) :
            InOutput(i) =>
                LET own == LoadFrame(csv)[i]
                    age == IF report.repair_ran THEN fix_pipe_age(own)
                           ELSE own.pipe_age_years
                IN  /\ OutputRow(i).pipe_age_years = age
                    /\ OutputRow(i).age_score = calculate_age_score(age)
                    /\ OutputRow(i).material_score =
                          calculate_material_score(
                              standardize_material_name(own.pipe_material))

\* ---- C15 ---------------------------------------------------------------

DerivedColumns ==
    {"pipe_age_years_original", "pipe_material_original",
     "pipe_material_standardized", "age_score", "material_score",
     "risk_score", "risk_category"}

\* C15: for every input table the output of preprocess_data has all seven
\* derived and audit columns, and for every record whose age exceeds 1800
\* pipe_age_years_original holds the age before the repair.
C15_SevenColumns ==
    pc = "preprocessed" =>
        /\ \A j \in 1..Len(df) : DerivedColumns \subseteq DOMAIN df[j]
        /\ \A i \in 1..Len(csv) :
              (InOutput(i) /\ Lt(Years(1800), to_numeric(csv[i].pipe_age_years)))
                 => OutputRow(i).pipe_age_years_original =
                        to_numeric(csv[i].pipe_age_years)

\* C15, as far as the code goes: the six other columns are always there, and
\* pipe_age_years_original is there, holding the age before the repair,
\* exactly when some record of the table has an age above 1800.
C15_AuditColumnWhenRepairRan ==
    pc = "preprocessed" =>
        \A i \in 1..Len(csv) :
            InOutput(i) =>
                /\ DerivedColumns \ {"pipe_age_years_original"}
                      \subseteq DOMAIN OutputRow(i)
                /\ "pipe_age_years_original" \in DOMAIN OutputRow(i)
                      <=> report.repair_ran
                /\ report.repair_ran =>
                      OutputRow(i).pipe_age_years_original =
                          to_numeric(csv[i].pipe_age_years)

\* ---- C16 ---------------------------------------------------------------

\* C16: preprocess_data never overwrites the raw material or the
\* pass-through fields: in every output record pipe_material and
\* pipe_material_original are the input pipe_material,
\* pipe_material_standardized is standardize_material_name of it, and every
\* input column other than pipe_age_years has its input value.
C16_RawFieldsKept ==
    pc = "preprocessed" =>
        \A i \in 1..Len(csv) :
            InOutput(i) =>
                /\ OutputRow(i).pipe_material = csv[i].pipe_material
                /\ OutputRow(i).pipe_material_original = csv[i].pipe_material
                /\ OutputRow(i).pipe_material_standardized =
                      standardize_material_name(csv[i].pipe_material)
                /\ \A col \in DOMAIN csv[i] \ {"pipe_age_years"} :
                      OutputRow(i)[col] = csv[i][col]

\* An output record whose age was repaired and whose canonical material is
\* not its raw label.
C16_Witness ==
    /\ pc = "preprocessed"
    /\ \E i \in 1..Len(csv) :
          /\ InOutput(i)
          /\ OutputRow(i).pipe_age_years # to_numeric(csv[i].pipe_age_years)
          /\ OutputRow(i).pipe_material_standardized # csv[i].pipe_material
          /\ OutputRow(i).pipe_material = <<"c", "p">>

\* ---- C17 ---------------------------------------------------------------

\* C17: the output of preprocess_data lists the surviving records in the
\* relative order of the input (no re-sort), holds no record that was not in
\* the input and no input record twice.
C17_OrderKept ==
    pc = "preprocessed" =>
        /\ \A j \in 1..Len(df) :
              /\ df[j].index \in 0..(Len(csv) - 1)
              /\ df[j].location = csv[df[j].index + 1].location
        /\ \A j, k \in 1..Len(df) : j < k => df[j].index < df[k].index

\* Two surviving records, the first with the higher risk score.
C17_Witness ==
    /\ pc = "preprocessed"
    /\ Len(df) = 2
    /\ df[1].risk_score > df[2].risk_score
    /\ df[1].location = csv[1].location
    /\ df[2].location = csv[2].location

\* ---- C18 ---------------------------------------------------------------

\* The band the claim gives an age: [0,30], [31,50], [51,70], [71,90],
\* [91, infinity); none for an age between two of them.
ClaimedBand(age) ==
    CASE Le(Years(0), age) /\ Le(age, Years(30)) -> "0-30"
      [] Le(Years(31), age) /\ Le(age, Years(50)) -> "31-50"
      [] Le(Years(51), age) /\ Le(age, Years(70)) -> "51-70"
      [] Le(Years(71), age) /\ Le(age, Years(90)) -> "71-90"
      [] Le(Years(91), age) -> "90+"
      [] OTHER -> NoBand

\* The records counted over the five bands.
BandCountTotal ==
    metrics["0-30"].count + metrics["31-50"].count + metrics["51-70"].count
        + metrics["71-90"].count + metrics["90+"].count

\* C18: the reporting functions put every scored record with age >= 0 in
\* exactly one of the bands [0,30], [31,50], [51,70], [71,90], [91,infinity):
\* age 0 is in '0-30', an age in (90, 91) is not in '90+', and the counts of
\* the bands sum to the number of scored records with age >= 0.
C18_AgeBands ==
    pc \in {"validated", "predicted"} =>
        /\ \A j \in 1..Len(df) :
              LET age == df[j].pipe_age_years
              IN  /\ Le(Years(0), age) => df[j].age_band # NoBand
                  /\ ClaimedBand(age) # NoBand =>
                        df[j].age_band = ClaimedBand(age)
                  /\ age = Years(0) => df[j].age_band = "0-30"
                  /\ (Lt(Years(90), age) /\ Lt(age, Years(91)))
                        => df[j].age_band # "90+"
        /\ BandCountTotal =
              Cardinality({j \in 1..Len(df) :
                              Le(Years(0), df[j].pipe_age_years)})
        /\ pc = "predicted" =>
              \A j \in 1..Len(df_results) :
                  df_results[j].age_band = df[j].age_band

\* C18, as far as the code goes: the bands are (0,30], (30,50], (50,70],
\* (70,90], (90,infinity); every record with age > 0 is in exactly one, a
\* record of age 0 or less in none, and the counts sum to the number of
\* records with age > 0.
C18_BandsOpenOnTheLeft ==
    pc \in {"validated", "predicted"} =>
        /\ \A j \in 1..Len(df) :
              LET age == df[j].pipe_age_years
              IN  df[j].age_band =
                     (CASE Le(age, Years(0)) -> NoBand
                        [] Lt(Years(0), age) /\ Le(age, Years(30)) -> "0-30"
                        [] Lt(Years(30), age) /\ Le(age, Years(50)) -> "31-50"
                        [] Lt(Years(50), age) /\ Le(age, Years(70)) -> "51-70"
                        [] Lt(Years(70), age) /\ Le(age, Years(90)) -> "71-90"
                        [] Lt(Years(90), age) -> "90+")
        /\ BandCountTotal =
              Cardinality({j \in 1..Len(df) :
                              Lt(Years(0), df[j].pipe_age_years)})

\* ---- C19 ---------------------------------------------------------------

\* The table preprocess_data returned in this run of main.
Returned == preprocess_data(csv).df

\* C19: validate_risk_scoring does not mutate its input: after it returns
\* the scored table has the columns and values it had before, so the table
\* handed to generate_predictions is the one preprocess_data returned.
C19_ValidateLeavesTable ==
    pc \in {"validated", "predicted"} => df = Returned

\* C19, as far as the code goes: the call adds the column age_band to the
\* caller's table and changes no column that was there.
C19_OnlyAgeBandAdded ==
    pc \in {"validated", "predicted"} =>
        /\ Len(df) = Len(Returned)
        /\ \A j \in 1..Len(df) :
              /\ DOMAIN df[j] = DOMAIN Returned[j] \cup {"age_band"}
              /\ \A col \in DOMAIN Returned[j] : df[j][col] = Returned[j][col]

\* ---- C20 ---------------------------------------------------------------

\* The key of a coordinate.
KeyOf(c) == CacheKey(c[1], c[2])

\* The unique non-null coordinates of the top-N rows of the run.
TopCoordinates ==
    {c \in {<<top_n[j].latitude, top_n[j].longitude>> : j \in 1..Len(top_n)} :
        ~isnan(c[1]) /\ ~isnan(c[2])}

\* How often reverse_geocode was called for coordinate c in this run.
TimesAsked(c) == Cardinality({i \in 1..Len(requests) : requests[i].coord = c})

\* C20: in one run of add_cities.main reverse_geocode is called exactly once
\* for each unique non-null top-N coordinate that the loaded cache lacks and
\* never for one the cache has; what it returns, the '' of a failed request
\* included, is stored under the coordinate's key, so that a later run that
\* loads the saved cache never asks for that coordinate again.
C20_GeocodeOncePerMissingCoordinate ==
    gpc \in {"geocoding", "done"} =>
        /\ \A c \in TopCoordinates :
              IF KeyOf(c) \in DOMAIN loaded_cache THEN TimesAsked(c) = 0
              ELSE /\ TimesAsked(c) <= 1
                   /\ gpc = "done" => TimesAsked(c) = 1
        /\ \A i \in 1..Len(requests) :
              /\ requests[i].coord \in TopCoordinates
              /\ KeyOf(requests[i].coord) \in DOMAIN cache
              /\ cache[KeyOf(requests[i].coord)] = requests[i].city
              /\ KeyOf(requests[i].coord) \notin asked_before
              /\ gpc = "done" =>
                    /\ KeyOf(requests[i].coord) \in DOMAIN disk_cache
                    /\ disk_cache[KeyOf(requests[i].coord)] = requests[i].city

\* A second run that finds in the cache the '' of a lookup that failed in the
\* first run, has that coordinate among its top-N rows, and asks for nothing.
C20_Witness ==
    /\ run = 2 /\ gpc = "done"
    /\ requests = <<>>
    /\ \E c \in TopCoordinates :
          /\ KeyOf(c) \in asked_before
          /\ loaded_cache[KeyOf(c)] = ""

\* ---- C21: risk_rank
\*
\* C21. In the table generate_predictions returns, every record's risk_rank
\* is 1 plus the number of records with a strictly greater risk_score:
\* records of equal score share a rank, a record with a strictly higher
\* score has a strictly smaller rank, every record with the highest score
\* has rank 1; and every column the input table had keeps its value, row by
\* row and in the same order.
StrictlyGreater(i) ==
    {j \in 1..Len(df) : df[j].risk_score > df[i].risk_score}

C21_RiskRank ==
    pc = "predicted" =>
        /\ Len(df_results) = Len(df)
        /\ \A i \in 1..Len(df) :
              /\ df_results[i].risk_rank = 1 + Cardinality(StrictlyGreater(i))
              /\ StrictlyGreater(i) = {} => df_results[i].risk_rank = 1
              /\ \A c \in DOMAIN df[i] : df_results[i][c] = df[i][c]
        /\ \A i, j \in 1..Len(df) :
              /\ df[i].risk_score = df[j].risk_score
                    => df_results[i].risk_rank = df_results[j].risk_rank
              /\ df[i].risk_score > df[j].risk_score
                    => df_results[i].risk_rank < df_results[j].risk_rank

\* Two records of different scores have been ranked 1 and 2.
C21_Witness ==
    /\ pc = "predicted" /\ Len(df_results) = 2
    /\ df[1].risk_score # df[2].risk_score
    /\ {df_results[1].risk_rank, df_results[2].risk_rank} = {1, 2}

\* ---- C22: the cache on disk during and after the geocoding loop
\*
\* C22. During the geocoding loop the cache in memory is written to disk
\* after every SaveEvery-th request and once more after the loop: after each
\* completed iteration at most SaveEvery - 1 newly geocoded results are not
\* on disk, the loop never removes or overwrites an entry the cache already
\* has, and when the loop is over and main has saved, the cache on disk
\* equals the cache in memory, which is the loaded entries plus every newly
\* geocoded coordinate.
RequestKey(i) == KeyOf(requests[i].coord)

NotOnDisk ==
    {k \in DOMAIN cache : k \notin DOMAIN disk_cache \/ disk_cache[k] # cache[k]}

C22_CacheCheckpoints ==
    gpc \in {"geocoding", "done"} =>
        /\ Cardinality(NotOnDisk) <= SaveEvery - 1
        /\ NotOnDisk \subseteq {RequestKey(i) : i \in 1..Len(requests)}
        /\ \A k \in DOMAIN loaded_cache :
              k \in DOMAIN cache /\ cache[k] = loaded_cache[k]
        /\ \A i \in 1..Len(requests) :
              /\ RequestKey(i) \notin DOMAIN loaded_cache
              /\ RequestKey(i) \in DOMAIN cache
              /\ cache[RequestKey(i)] = requests[i].city
        /\ DOMAIN cache =
              DOMAIN loaded_cache \cup {RequestKey(i) : i \in 1..Len(requests)}
        /\ gpc = "done" => disk_cache = cache

\* A run that loaded an entry, made SaveEvery requests and so saved inside
\* the loop, and has finished.
C22_Witness ==
    /\ gpc = "done"
    /\ Len(requests) = SaveEvery
    /\ DOMAIN loaded_cache # {}
    /\ disk_cache = cache

\* ---- C23: the count of corrected ages
\*
\* The age of input record i as the repair found it.
AgeBeforeRepair(i) == LoadFrame(csv)[i].pipe_age_years

\* fix_pipe_age gave record i another age than it had; a record whose age
\* is missing before and after has not been changed.
AgeChanged(i) ==
    /\ ~(isnan(AgeBeforeRepair(i)) /\ isnan(AgeAfterRepair(i)))
    /\ AgeAfterRepair(i) # AgeBeforeRepair(i)

\* C23. When preprocess_data runs the age repair, the count it reports as
\* 'Ages successfully corrected' is the number of records whose age
\* fix_pipe_age changed; records whose age is missing before and after the
\* repair are not counted.
C23_AgesFixedCountsChanges ==
    (pc \in {"preprocessed", "raised"} /\ report.repair_ran) =>
        report.ages_fixed =
            Cardinality({i \in 1..Len(csv) : AgeChanged(i)})

\* C23, as far as the code goes: the count is the number of changed ages
\* plus the number of records with no age (NaN != NaN, preprocess.py:301).
C23_AgesFixedAlsoCountsMissing ==
    (pc \in {"preprocessed", "raised"} /\ report.repair_ran) =>
        report.ages_fixed =
            Cardinality({i \in 1..Len(csv) : AgeChanged(i)})
            + Cardinality({i \in 1..Len(csv) : isnan(AgeBeforeRepair(i))})
====
